---- MODULE Spec2Model ----
(***************************************************************************)
(* State-machine model of the amazon_clone storefront client               *)
(* (frontend/src/App.js, CartItem.jsx, ProductCard.jsx, Header.jsx) and of *)
(* the checkout service it talks to (backend/main.py, whose behaviour is   *)
(* taken from the specification: the file is not part of the sources).     *)
(*                                                                         *)
(* One action per UI control or asynchronous continuation.  A handler runs *)
(* against the state of the render that created it; React re-renders (and  *)
(* runs the effects) before the next event is handled, so a synchronous    *)
(* handler is one atomic step.  handleCheckout is split at its await: the  *)
(* values its closure captured travel with the request that is in flight.  *)
(***************************************************************************)
EXTENDS Integers, Sequences, FiniteSets, TLC

VARIABLES
    products,           \* useState([])     App.js:8
    filteredProducts,   \* useState([])     App.js:9
    cart,               \* useState([])     App.js:10
    showCart,           \* useState(false)  App.js:11
    showCheckout,       \* useState(false)  App.js:12
    selectedProduct,    \* useState(null)   App.js:13
    searchTerm,         \* useState('')     App.js:14
    selectedCategory,   \* useState('All')  App.js:15
    address,            \* useState('')     App.js:16
    loading,            \* useState(true)   App.js:17
    orders,             \* useState([])     App.js:18
    showOrders,         \* useState(false)  App.js:19
    currentImageIndex,  \* useState(0)      App.js:20
    orderConfirmation,  \* useState(null)   App.js:21
    inflight,           \* checkout requests awaiting their response, each with
                        \* the values the handler's closure captured
    dbOrders,           \* the service's orders table
    requestsSent,       \* number of checkout requests sent so far
    alertMsg,           \* the alert() raised by the last handler, or "none"
    last                \* the last handler that ran, with its arguments

vars == <<products, filteredProducts, cart, showCart, showCheckout,
          selectedProduct, searchTerm, selectedCategory, address, loading,
          orders, showOrders, currentImageIndex, orderConfirmation,
          inflight, dbOrders, requestsSent, alertMsg, last>>

panelVars == <<showCart, showCheckout, showOrders, selectedProduct,
               orderConfirmation>>
filterVars == <<products, filteredProducts, searchTerm, selectedCategory,
                loading>>
serviceVars == <<inflight, dbOrders, requestsSent>>

-----------------------------------------------------------------------------
(* Bounds of the model *)

\* largest quantity a cart entry is driven to by add / plus clicks
MaxQty == 2
\* number of checkout requests the client sends in one run
MaxRequests == 2
\* number of distinct values Math.random() is taken to return
NumIds == 2

-----------------------------------------------------------------------------
(* JavaScript values *)

\* null, and a non-null object reference
Null == <<>>
Some(x) == <<x>>
Val(o) == o[1]

\* a string is a sequence of one-character strings
Whitespace == {" "}

\* String.prototype.toLowerCase, character by character
LowerChar(c) ==
    CASE c = "A" -> "a"
      [] c = "B" -> "b"
      [] c = "H" -> "h"
      [] OTHER -> c

ToLowerCase(s) == [i \in 1..Len(s) |-> LowerChar(s[i])]

RECURSIVE TrimStart(_)
TrimStart(s) ==
    IF s # <<>> /\ Head(s) \in Whitespace THEN TrimStart(Tail(s)) ELSE s

RECURSIVE TrimEnd(_)
TrimEnd(s) ==
    IF s # <<>> /\ s[Len(s)] \in Whitespace
    THEN TrimEnd(SubSeq(s, 1, Len(s) - 1))
    ELSE s

\* String.prototype.trim
Trim(s) == TrimEnd(TrimStart(s))

\* String.prototype.includes
Includes(s, t) ==
    \E k \in 0..(Len(s) - Len(t)) : SubSeq(s, k + 1, k + Len(t)) = t

\* the % operator: the result takes the sign of the dividend
JsRem(a, b) == IF a >= 0 THEN a % b ELSE -((-a) % b)

\* parseInt of the text of the quantity input: optional leading blanks, an
\* optional sign, then decimal digits up to the first other character; NaN
\* (Null here) when no digit is read
Digits == <<"0", "1", "2", "3", "4", "5", "6", "7", "8", "9">>
IsDigit(c) == \E d \in 1..Len(Digits) : Digits[d] = c
DigitValue(c) == (CHOOSE d \in 1..Len(Digits) : Digits[d] = c) - 1

RECURSIVE ParseDigits(_, _)
ParseDigits(s, acc) ==
    IF s # <<>> /\ IsDigit(Head(s))
    THEN ParseDigits(Tail(s), 10 * acc + DigitValue(Head(s)))
    ELSE acc

ParseInt(text) ==
    LET t == TrimStart(text)
        neg == t # <<>> /\ Head(t) = "-"
        signed == t # <<>> /\ Head(t) \in {"-", "+"}
        body == IF signed THEN Tail(t) ELSE t
    IN  IF body = <<>> \/ ~IsDigit(Head(body))
        THEN Null
        ELSE Some(IF neg THEN -ParseDigits(body, 0) ELSE ParseDigits(body, 0))

\* `v || 1` for a number v: NaN and 0 are falsy
OrOne(v) == IF v = Null \/ Val(v) = 0 THEN 1 ELSE Val(v)

-----------------------------------------------------------------------------
(* The catalog the service returns: rows of the products table *)

Product(id, name, price, category, stock, img1, img2, img3) ==
    [id |-> id, name |-> name, price |-> price, category |-> category,
     stock |-> stock, image_url |-> img1, image_url2 |-> img2,
     image_url3 |-> img3]

Catalog ==
    << Product(1, <<"A", "b">>, 2, "Apparel", 5, "s1", "s2", "s3"),
       Product(2, <<"b", " ", "a">>, 3, "Electronics", 1, "p1", "", "p3"),
       Product(3, <<"B", "A">>, 5, "Apparel", 0, "m1", "", "") >>

\* what GET /api/products can resolve with
Catalogs == {Catalog, SubSeq(Catalog, 2, 3), SubSeq(Catalog, 1, 1)}

\* values the user can type into the search box, the address box and the
\* quantity input
SearchTerms == {<<>>, <<" ">>, <<"a">>, <<"A", "B">>, <<" ", "a">>}
Addresses == {<<>>, <<" ">>, <<"H">>}
TypedQuantities == {<<>>, <<"0">>, <<"2">>, <<"-", "1">>, <<"x">>}

\* values Math.random() is taken to return
RandomIds == 1..NumIds

-----------------------------------------------------------------------------
(* Derived values of a render *)

\* the effect comparing the name with the term as typed, without toLowerCase
FilterProducts_CaseSensitive(prods, category, term) ==
    LET byCategory ==
            IF category # "All"
            THEN SelectSeq(prods, LAMBDA p : p.category = category)
            ELSE prods
    IN  IF Trim(term) # <<>>
        THEN SelectSeq(byCategory, LAMBDA p : Includes(p.name, term))
        ELSE byCategory

\* the search and filter effect
FilterProducts(prods, category, term) ==
    LET byCategory ==
            IF category # "All"
            THEN SelectSeq(prods, LAMBDA p : p.category = category)
            ELSE prods
    IN  IF Trim(term) # <<>>
        THEN SelectSeq(byCategory,
                 LAMBDA p : Includes(ToLowerCase(p.name), ToLowerCase(term)))
        ELSE byCategory

categories == {"All"} \cup {products[i].category : i \in 1..Len(products)}

getProductImages(product) ==
    (IF product.image_url # "" THEN <<product.image_url>> ELSE <<>>)
    \o (IF product.image_url2 # "" THEN <<product.image_url2>> ELSE <<>>)
    \o (IF product.image_url3 # "" THEN <<product.image_url3>> ELSE <<>>)

RECURSIVE SumCart(_)
SumCart(items) ==
    IF items = <<>> THEN 0
    ELSE Head(items).price * Head(items).quantity + SumCart(Tail(items))

cartTotal == SumCart(cart)

\* the conditional chain with the order history tested first
Panel_OrdersFirst ==
    IF loading THEN "Loading"
    ELSE IF showOrders THEN "Orders"
    ELSE IF orderConfirmation # Null THEN "Confirmation"
    ELSE IF selectedProduct # Null THEN "ProductDetail"
    ELSE IF showCart THEN "Cart"
    ELSE IF showCheckout THEN "Checkout"
    ELSE "Catalog"

\* which branch of the render's conditional chain is shown
Panel ==
    IF loading THEN "Loading"
    ELSE IF orderConfirmation # Null THEN "Confirmation"
    ELSE IF showOrders THEN "Orders"
    ELSE IF selectedProduct # Null THEN "ProductDetail"
    ELSE IF showCart THEN "Cart"
    ELSE IF showCheckout THEN "Checkout"
    ELSE "Catalog"

-----------------------------------------------------------------------------
(* Initial state: the useState defaults, the first render's filter effect   *)
(* (on the empty catalog) already run, the catalog request in flight        *)

Init ==
    /\ products = <<>>
    /\ filteredProducts = <<>>
    /\ cart = <<>>
    /\ showCart = FALSE
    /\ showCheckout = FALSE
    /\ selectedProduct = Null
    /\ searchTerm = <<>>
    /\ selectedCategory = "All"
    /\ address = <<>>
    /\ loading = TRUE
    /\ orders = <<>>
    /\ showOrders = FALSE
    /\ currentImageIndex = 0
    /\ orderConfirmation = Null
    /\ inflight = <<>>
    /\ dbOrders = <<>>
    /\ requestsSent = 0
    /\ alertMsg = "none"
    /\ last = [op |-> "mount", a |-> 0, b |-> 0]

Ran(op, a, b) == last' = [op |-> op, a |-> a, b |-> b]

-----------------------------------------------------------------------------
(* Startup catalog load *)

FetchProductsResolved(data) ==
    /\ loading
    /\ products' = data
    /\ filteredProducts' = FilterProducts(data, selectedCategory, searchTerm)
    /\ loading' = FALSE
    /\ alertMsg' = "none"
    /\ Ran("fetchProductsResolved", Len(data), 0)
    /\ UNCHANGED <<cart, address, orders, currentImageIndex, searchTerm,
                   selectedCategory>>
    /\ UNCHANGED panelVars
    /\ UNCHANGED serviceVars

\* the catch of the product fetch without setLoading(false)
FetchProductsRejected_StaysLoading ==
    /\ loading
    /\ alertMsg' = "none"
    /\ Ran("fetchProductsRejected", 0, 0)
    /\ UNCHANGED <<products, filteredProducts, searchTerm, selectedCategory,
                   cart, address, orders, currentImageIndex, loading>>
    /\ UNCHANGED panelVars
    /\ UNCHANGED serviceVars

FetchProductsRejected ==
    /\ loading
    /\ loading' = FALSE
    /\ alertMsg' = "none"
    /\ Ran("fetchProductsRejected", 0, 0)
    /\ UNCHANGED <<products, filteredProducts, searchTerm, selectedCategory,
                   cart, address, orders, currentImageIndex>>
    /\ UNCHANGED panelVars
    /\ UNCHANGED serviceVars

-----------------------------------------------------------------------------
(* Catalog panel: search box and category buttons, each followed by the     *)
(* filter effect of the render it causes                                    *)

SetSearchTerm(value) ==
    /\ Panel = "Catalog"
    /\ searchTerm' = value
    /\ filteredProducts' = FilterProducts(products, selectedCategory, value)
    /\ alertMsg' = "none"
    /\ Ran("setSearchTerm", 0, 0)
    /\ UNCHANGED <<products, selectedCategory, loading, cart, address, orders,
                   currentImageIndex>>
    /\ UNCHANGED panelVars
    /\ UNCHANGED serviceVars

SetSelectedCategory(cat) ==
    /\ Panel = "Catalog"
    /\ cat \in categories
    /\ selectedCategory' = cat
    /\ filteredProducts' = FilterProducts(products, cat, searchTerm)
    /\ alertMsg' = "none"
    /\ Ran("setSelectedCategory", 0, 0)
    /\ UNCHANGED <<products, searchTerm, loading, cart, address, orders,
                   currentImageIndex>>
    /\ UNCHANGED panelVars
    /\ UNCHANGED serviceVars

-----------------------------------------------------------------------------
(* Cart mutations *)

CartEntry(product, rnd) ==
    [id |-> rnd, product_id |-> product.id, name |-> product.name,
     price |-> product.price, image_url |-> product.image_url, quantity |-> 1]

\* addToCart without the lookup of an existing entry
AddToCartValue_Append(c, product, rnd) == c \o <<CartEntry(product, rnd)>>

\* the value addToCart passes to setCart
AddToCartValue(c, product, rnd) ==
    IF \E i \in 1..Len(c) : c[i].product_id = product.id
    THEN [i \in 1..Len(c) |->
            IF c[i].product_id = product.id
            THEN [c[i] EXCEPT !.quantity = @ + 1]
            ELSE c[i]]
    ELSE c \o <<CartEntry(product, rnd)>>

addToCart(product) ==
    /\ \E rnd \in RandomIds : cart' = AddToCartValue(cart, product, rnd)
    /\ alertMsg' = "added to cart"
    /\ Ran("addToCart", product.id, 0)
    /\ UNCHANGED <<address, orders, currentImageIndex>>
    /\ UNCHANGED panelVars
    /\ UNCHANGED filterVars
    /\ UNCHANGED serviceVars

\* buyNow without the lookup of an existing entry
BuyNowValue_Append(c, product, rnd) == c \o <<CartEntry(product, rnd)>>

\* the value buyNow passes to setCart
BuyNowValue(c, product, rnd) ==
    IF \E i \in 1..Len(c) : c[i].product_id = product.id
    THEN [i \in 1..Len(c) |->
            IF c[i].product_id = product.id
            THEN [c[i] EXCEPT !.quantity = @ + 1]
            ELSE c[i]]
    ELSE c \o <<CartEntry(product, rnd)>>

\* buyNow opening the Cart panel instead of the Checkout panel
buyNow_OpensCart(product) ==
    /\ \E rnd \in RandomIds : cart' = BuyNowValue(cart, product, rnd)
    /\ showCart' = TRUE
    /\ showCheckout' = FALSE
    /\ showOrders' = FALSE
    /\ selectedProduct' = Null
    /\ alertMsg' = "none"
    /\ Ran("buyNow", product.id, 0)
    /\ UNCHANGED <<address, orders, currentImageIndex, orderConfirmation>>
    /\ UNCHANGED filterVars
    /\ UNCHANGED serviceVars

buyNow(product) ==
    /\ \E rnd \in RandomIds : cart' = BuyNowValue(cart, product, rnd)
    /\ showCart' = FALSE
    /\ showCheckout' = TRUE
    /\ showOrders' = FALSE
    /\ selectedProduct' = Null
    /\ alertMsg' = "none"
    /\ Ran("buyNow", product.id, 0)
    /\ UNCHANGED <<address, orders, currentImageIndex, orderConfirmation>>
    /\ UNCHANGED filterVars
    /\ UNCHANGED serviceVars

\* the value removeFromCart passes to setCart
RemoveFromCartValue(c, id) == SelectSeq(c, LAMBDA item : item.id # id)

removeFromCart(id) ==
    /\ cart' = RemoveFromCartValue(cart, id)
    /\ alertMsg' = "none"
    /\ Ran("removeFromCart", id, 0)
    /\ UNCHANGED <<address, orders, currentImageIndex>>
    /\ UNCHANGED panelVars
    /\ UNCHANGED filterVars
    /\ UNCHANGED serviceVars

\* updateQuantity removing the entry only for a negative quantity
UpdateQuantityValue_StrictNegative(c, id, quantity) ==
    IF quantity < 0
    THEN RemoveFromCartValue(c, id)
    ELSE [i \in 1..Len(c) |->
            IF c[i].id = id THEN [c[i] EXCEPT !.quantity = quantity] ELSE c[i]]

\* the value updateQuantity passes to setCart (through removeFromCart when
\* the quantity is not positive)
UpdateQuantityValue(c, id, quantity) ==
    IF quantity <= 0
    THEN RemoveFromCartValue(c, id)
    ELSE [i \in 1..Len(c) |->
            IF c[i].id = id THEN [c[i] EXCEPT !.quantity = quantity] ELSE c[i]]

updateQuantity(id, quantity) ==
    /\ cart' = UpdateQuantityValue(cart, id, quantity)
    /\ alertMsg' = "none"
    /\ Ran("updateQuantity", id, quantity)
    /\ UNCHANGED <<address, orders, currentImageIndex>>
    /\ UNCHANGED panelVars
    /\ UNCHANGED filterVars
    /\ UNCHANGED serviceVars

\* quantity of the cart entry of a product, 0 when there is none
QuantityOf(c, productId) ==
    IF \E i \in 1..Len(c) : c[i].product_id = productId
    THEN c[CHOOSE i \in 1..Len(c) : c[i].product_id = productId].quantity
    ELSE 0

-----------------------------------------------------------------------------
(* Catalog panel: product cards (ProductCard.jsx) *)

Shown(p) == \E i \in 1..Len(filteredProducts) : filteredProducts[i] = p

ProductCardAddToCart(p) ==
    /\ Panel = "Catalog"
    /\ Shown(p)
    /\ p.stock # 0                              \* disabled={product.stock === 0}
    /\ QuantityOf(cart, p.id) < MaxQty
    /\ addToCart(p)

\* View Details without the reset of the carousel index
ProductCardViewDetails_KeepsIndex(p) ==
    /\ Panel = "Catalog"
    /\ Shown(p)
    /\ selectedProduct' = Some(p)
    /\ alertMsg' = "none"
    /\ Ran("viewDetails", p.id, 0)
    /\ UNCHANGED <<cart, address, orders, showCart, showCheckout, showOrders,
                   orderConfirmation, currentImageIndex>>
    /\ UNCHANGED filterVars
    /\ UNCHANGED serviceVars

ProductCardViewDetails(p) ==
    /\ Panel = "Catalog"
    /\ Shown(p)
    /\ selectedProduct' = Some(p)
    /\ currentImageIndex' = 0
    /\ alertMsg' = "none"
    /\ Ran("viewDetails", p.id, 0)
    /\ UNCHANGED <<cart, address, orders, showCart, showCheckout, showOrders,
                   orderConfirmation>>
    /\ UNCHANGED filterVars
    /\ UNCHANGED serviceVars

-----------------------------------------------------------------------------
(* Product detail panel *)

DetailBack ==
    /\ Panel = "ProductDetail"
    /\ selectedProduct' = Null
    /\ alertMsg' = "none"
    /\ Ran("detailBack", 0, 0)
    /\ UNCHANGED <<cart, address, orders, currentImageIndex, showCart,
                   showCheckout, showOrders, orderConfirmation>>
    /\ UNCHANGED filterVars
    /\ UNCHANGED serviceVars

\* prevImage without adding the length before the remainder
PrevIndex_NoWrap(prev, n) == JsRem(prev - 1, n)

\* the updater functions of nextImage and prevImage, for n images
NextIndex(prev, n) == JsRem(prev + 1, n)
PrevIndex(prev, n) == JsRem(prev - 1 + n, n)

SetImageIndex(op, idx) ==
    /\ currentImageIndex' = idx
    /\ alertMsg' = "none"
    /\ Ran(op, currentImageIndex, idx)
    /\ UNCHANGED <<cart, address, orders>>
    /\ UNCHANGED panelVars
    /\ UNCHANGED filterVars
    /\ UNCHANGED serviceVars

\* the carousel buttons are rendered when the product has more than one image
CarouselShown ==
    /\ Panel = "ProductDetail"
    /\ Len(getProductImages(Val(selectedProduct))) > 1

nextImage ==
    /\ CarouselShown
    /\ selectedProduct # Null
    /\ SetImageIndex("nextImage",
           NextIndex(currentImageIndex,
                     Len(getProductImages(Val(selectedProduct)))))

prevImage ==
    /\ CarouselShown
    /\ selectedProduct # Null
    /\ SetImageIndex("prevImage",
           PrevIndex(currentImageIndex,
                     Len(getProductImages(Val(selectedProduct)))))

IndicatorClick(idx) ==
    /\ CarouselShown
    /\ idx \in 0..(Len(getProductImages(Val(selectedProduct))) - 1)
    /\ SetImageIndex("indicator", idx)

DetailAddToCart ==
    /\ Panel = "ProductDetail"
    /\ Val(selectedProduct).stock # 0           \* disabled={stock === 0}
    /\ QuantityOf(cart, Val(selectedProduct).id) < MaxQty
    /\ addToCart(Val(selectedProduct))

\* the detail page's Buy Now button without its disabled attribute
DetailBuyNow_NoStockCheck ==
    /\ Panel = "ProductDetail"
    /\ QuantityOf(cart, Val(selectedProduct).id) < MaxQty
    /\ buyNow(Val(selectedProduct))

DetailBuyNow ==
    /\ Panel = "ProductDetail"
    /\ Val(selectedProduct).stock # 0           \* disabled={stock === 0}
    /\ QuantityOf(cart, Val(selectedProduct).id) < MaxQty
    /\ buyNow(Val(selectedProduct))

-----------------------------------------------------------------------------
(* Cart panel (CartItem.jsx) *)

CartItemMinus(i) ==
    /\ Panel = "Cart"
    /\ i \in 1..Len(cart)
    /\ updateQuantity(cart[i].id, cart[i].quantity - 1)

CartItemPlus(i) ==
    /\ Panel = "Cart"
    /\ i \in 1..Len(cart)
    /\ cart[i].quantity < MaxQty
    /\ updateQuantity(cart[i].id, cart[i].quantity + 1)

CartItemType(i, text) ==
    /\ Panel = "Cart"
    /\ i \in 1..Len(cart)
    /\ updateQuantity(cart[i].id, OrOne(ParseInt(text)))

CartItemRemove(i) ==
    /\ Panel = "Cart"
    /\ i \in 1..Len(cart)
    /\ removeFromCart(cart[i].id)

\* Proceed to Checkout rendered also for an empty cart
ProceedToCheckout_EmptyCart ==
    /\ Panel = "Cart"
    /\ showCheckout' = TRUE
    /\ showCart' = FALSE
    /\ alertMsg' = "none"
    /\ Ran("proceedToCheckout", 0, 0)
    /\ UNCHANGED <<cart, address, orders, currentImageIndex, showOrders,
                   selectedProduct, orderConfirmation>>
    /\ UNCHANGED filterVars
    /\ UNCHANGED serviceVars

ProceedToCheckout ==
    /\ Panel = "Cart"
    /\ Len(cart) # 0
    /\ showCheckout' = TRUE
    /\ showCart' = FALSE
    /\ alertMsg' = "none"
    /\ Ran("proceedToCheckout", 0, 0)
    /\ UNCHANGED <<cart, address, orders, currentImageIndex, showOrders,
                   selectedProduct, orderConfirmation>>
    /\ UNCHANGED filterVars
    /\ UNCHANGED serviceVars

-----------------------------------------------------------------------------
(* Checkout panel *)

SetAddress(value) ==
    /\ Panel = "Checkout"
    /\ address' = value
    /\ alertMsg' = "none"
    /\ Ran("setAddress", 0, 0)
    /\ UNCHANGED <<cart, orders, currentImageIndex>>
    /\ UNCHANGED panelVars
    /\ UNCHANGED filterVars
    /\ UNCHANGED serviceVars

CheckoutBack ==
    /\ Panel = "Checkout"
    /\ showCheckout' = FALSE
    /\ alertMsg' = "none"
    /\ Ran("checkoutBack", 0, 0)
    /\ UNCHANGED <<cart, address, orders, currentImageIndex, showCart,
                   showOrders, selectedProduct, orderConfirmation>>
    /\ UNCHANGED filterVars
    /\ UNCHANGED serviceVars

\* `!address`, the test without the trim
AddressMissing_NoTrim(a) == a = <<>>

\* `!address.trim()`
AddressMissing(a) == Trim(a) = <<>>

\* the body of the POST /api/checkout request
CheckoutData ==
    [shipping_address |-> address,
     cart_total |-> cartTotal,
     items |-> [i \in 1..Len(cart) |->
                  [product_id |-> cart[i].product_id, name |-> cart[i].name,
                   price |-> cart[i].price, quantity |-> cart[i].quantity]]]

\* handleCheckout up to its await: the request leaves with the values of this
\* render, and the continuation keeps this render's `orders`
handleCheckout ==
    /\ Panel = "Checkout"
    /\ IF AddressMissing(address)
       THEN /\ alertMsg' = "Please enter shipping address"
            /\ Ran("handleCheckout", 0, 0)
            /\ UNCHANGED serviceVars
       ELSE /\ requestsSent < MaxRequests
            /\ inflight' = Append(inflight,
                                  [data |-> CheckoutData, orders |-> orders])
            /\ requestsSent' = requestsSent + 1
            /\ alertMsg' = "none"
            /\ Ran("handleCheckout", 1, 0)
            /\ UNCHANGED dbOrders
    /\ UNCHANGED <<cart, address, orders, currentImageIndex>>
    /\ UNCHANGED panelVars
    /\ UNCHANGED filterVars

RemoveAt(s, i) == SubSeq(s, 1, i - 1) \o SubSeq(s, i + 1, Len(s))

-----------------------------------------------------------------------------
(* The checkout service *)

ServiceAccepts(data) == data.shipping_address # <<>> /\ data.items # <<>>

RECURSIVE ServiceTotal(_)
ServiceTotal(items) ==
    IF items = <<>> THEN 0
    ELSE Head(items).price * Head(items).quantity + ServiceTotal(Tail(items))

\* the service adding up the prices without the quantities
ServiceOrder_PriceOnly(data, db) ==
    [id |-> Len(db) + 1,
     total_amount |-> ServiceTotal([i \in 1..Len(data.items) |->
                        [data.items[i] EXCEPT !.quantity = 1]]),
     shipping_address |-> data.shipping_address,
     status |-> "confirmed"]

\* the row the service stores and returns
ServiceOrder(data, db) ==
    [id |-> Len(db) + 1,
     total_amount |-> ServiceTotal(data.items),
     shipping_address |-> data.shipping_address,
     status |-> "confirmed"]

-----------------------------------------------------------------------------
(* handleCheckout after its await *)

\* response.ok: the service stores the order, the client shows it
CheckoutResponseOk(i) ==
    /\ i \in 1..Len(inflight)
    /\ ServiceAccepts(inflight[i].data)
    /\ LET order == ServiceOrder(inflight[i].data, dbOrders)
       IN  /\ dbOrders' = Append(dbOrders, order)
           /\ orders' = Append(inflight[i].orders, order)
           /\ orderConfirmation' = Some(order)
           /\ Ran("checkoutOk", order.id, 0)
    /\ cart' = <<>>
    /\ address' = <<>>
    /\ showCheckout' = FALSE
    /\ showCart' = FALSE
    /\ inflight' = RemoveAt(inflight, i)
    /\ alertMsg' = "none"
    /\ UNCHANGED <<showOrders, selectedProduct, currentImageIndex,
                   requestsSent>>
    /\ UNCHANGED filterVars

\* the failure branch resetting the cart as the success branch does
CheckoutResponseNotOk_ClearsCart(i) ==
    /\ i \in 1..Len(inflight)
    /\ inflight' = RemoveAt(inflight, i)
    /\ cart' = <<>>
    /\ alertMsg' = "Checkout failed"
    /\ Ran("checkoutNotOk", 0, 0)
    /\ UNCHANGED <<address, orders, currentImageIndex, dbOrders,
                   requestsSent>>
    /\ UNCHANGED panelVars
    /\ UNCHANGED filterVars

\* a response that is not ok: a validation error, or the store is unavailable
CheckoutResponseNotOk(i) ==
    /\ i \in 1..Len(inflight)
    /\ inflight' = RemoveAt(inflight, i)
    /\ alertMsg' = "Checkout failed"
    /\ Ran("checkoutNotOk", 0, 0)
    /\ UNCHANGED <<cart, address, orders, currentImageIndex, dbOrders,
                   requestsSent>>
    /\ UNCHANGED panelVars
    /\ UNCHANGED filterVars

\* fetch rejects: the catch block
CheckoutRequestError(i) ==
    /\ i \in 1..Len(inflight)
    /\ inflight' = RemoveAt(inflight, i)
    /\ alertMsg' = "Error during checkout"
    /\ Ran("checkoutError", 0, 0)
    /\ UNCHANGED <<cart, address, orders, currentImageIndex, dbOrders,
                   requestsSent>>
    /\ UNCHANGED panelVars
    /\ UNCHANGED filterVars

-----------------------------------------------------------------------------
(* Header (Header.jsx) and the confirmation panel *)

\* Home without the reset of the order confirmation
handleHomeClick_KeepsConfirmation ==
    /\ ~loading
    /\ showOrders' = FALSE
    /\ showCart' = FALSE
    /\ showCheckout' = FALSE
    /\ selectedProduct' = Null
    /\ alertMsg' = "none"
    /\ Ran("handleHomeClick", 0, 0)
    /\ UNCHANGED <<cart, address, orders, currentImageIndex,
                   orderConfirmation>>
    /\ UNCHANGED filterVars
    /\ UNCHANGED serviceVars

handleHomeClick ==
    /\ ~loading
    /\ showOrders' = FALSE
    /\ showCart' = FALSE
    /\ showCheckout' = FALSE
    /\ selectedProduct' = Null
    /\ orderConfirmation' = Null
    /\ alertMsg' = "none"
    /\ Ran("handleHomeClick", 0, 0)
    /\ UNCHANGED <<cart, address, orders, currentImageIndex>>
    /\ UNCHANGED filterVars
    /\ UNCHANGED serviceVars

handleOrdersClick ==
    /\ ~loading
    /\ showOrders' = ~showOrders
    /\ showCart' = FALSE
    /\ showCheckout' = FALSE
    /\ selectedProduct' = Null
    /\ orderConfirmation' = Null
    /\ alertMsg' = "none"
    /\ Ran("handleOrdersClick", 0, 0)
    /\ UNCHANGED <<cart, address, orders, currentImageIndex>>
    /\ UNCHANGED filterVars
    /\ UNCHANGED serviceVars

\* Cart without the reset of the order history flag
handleCartClick_KeepsOrders ==
    /\ ~loading
    /\ showCart' = ~showCart
    /\ showCheckout' = FALSE
    /\ selectedProduct' = Null
    /\ orderConfirmation' = Null
    /\ alertMsg' = "none"
    /\ Ran("handleCartClick", 0, 0)
    /\ UNCHANGED <<cart, address, orders, currentImageIndex, showOrders>>
    /\ UNCHANGED filterVars
    /\ UNCHANGED serviceVars

handleCartClick ==
    /\ ~loading
    /\ showCart' = ~showCart
    /\ showCheckout' = FALSE
    /\ showOrders' = FALSE
    /\ selectedProduct' = Null
    /\ orderConfirmation' = Null
    /\ alertMsg' = "none"
    /\ Ran("handleCartClick", 0, 0)
    /\ UNCHANGED <<cart, address, orders, currentImageIndex>>
    /\ UNCHANGED filterVars
    /\ UNCHANGED serviceVars

ContinueShopping ==
    /\ Panel = "Confirmation"
    /\ orderConfirmation' = Null
    /\ showCart' = FALSE
    /\ showCheckout' = FALSE
    /\ showOrders' = FALSE
    /\ selectedProduct' = Null
    /\ alertMsg' = "none"
    /\ Ran("continueShopping", 0, 0)
    /\ UNCHANGED <<cart, address, orders, currentImageIndex>>
    /\ UNCHANGED filterVars
    /\ UNCHANGED serviceVars

-----------------------------------------------------------------------------

(* Specifications.  The handlers above are the whole client; each           *)
(* specification runs the part of it a group of properties is about, on a   *)
(* catalog sized for that part, so that every run is exhaustive.            *)

\* the catalog with one product that can be bought and one out of stock
SmallCatalog == SubSeq(Catalog, 2, 3)

\* navigation shared by the specifications
Navigation ==
    \/ FetchProductsRejected
    \/ \E i \in 1..Len(products) : ProductCardAddToCart(products[i])
    \/ \E i \in 1..Len(products) : ProductCardViewDetails(products[i])
    \/ DetailBack
    \/ DetailAddToCart
    \/ DetailBuyNow
    \/ handleHomeClick
    \/ handleOrdersClick
    \/ handleCartClick

CartPanel ==
    \/ \E i \in 1..Len(cart) : CartItemMinus(i)
    \/ \E i \in 1..Len(cart) : CartItemPlus(i)
    \/ \E i \in 1..Len(cart), text \in TypedQuantities : CartItemType(i, text)
    \/ \E i \in 1..Len(cart) : CartItemRemove(i)
    \/ ProceedToCheckout
    \/ CheckoutBack

\* the cart: two products that can be bought, every cart control, no order
\* placed
NextCart ==
    \/ FetchProductsResolved(Catalog)
    \/ Navigation
    \/ CartPanel
    \/ \E value \in Addresses : SetAddress(value)

SpecCart == Init /\ [][NextCart]_vars

\* checkout: every control but the search bar and the carousel, with
\* requests in flight while the user goes on
NextCheckout ==
    \/ FetchProductsResolved(SmallCatalog)
    \/ Navigation
    \/ CartPanel
    \/ \E value \in Addresses : SetAddress(value)
    \/ handleCheckout
    \/ \E i \in 1..Len(inflight) : CheckoutResponseOk(i)
    \/ \E i \in 1..Len(inflight) : CheckoutResponseNotOk(i)
    \/ \E i \in 1..Len(inflight) : CheckoutRequestError(i)
    \/ ContinueShopping

SpecCheckout == Init /\ [][NextCheckout]_vars

\* the search bar and the category buttons, over every catalog
NextFilter ==
    \/ \E data \in Catalogs : FetchProductsResolved(data)
    \/ FetchProductsRejected
    \/ \E value \in SearchTerms : SetSearchTerm(value)
    \/ \E cat \in {"All", "Apparel", "Electronics"} : SetSelectedCategory(cat)
    \/ \E i \in 1..Len(products) : ProductCardViewDetails(products[i])
    \/ DetailBack
    \/ handleHomeClick

SpecFilter == Init /\ [][NextFilter]_vars

\* the catalog panel with a startup request that settles: the promise of
\* fetch() is resolved or rejected by the browser
FetchSettles ==
    \/ \E data \in Catalogs : FetchProductsResolved(data)
    \/ FetchProductsRejected

SpecLoad == Init /\ [][NextFilter]_vars /\ WF_vars(FetchSettles)

\* the image carousel of the product detail panel
NextCarousel ==
    \/ FetchProductsResolved(Catalog)
    \/ Navigation
    \/ nextImage
    \/ prevImage
    \/ \E idx \in 0..2 : IndicatorClick(idx)

SpecCarousel == Init /\ [][NextCarousel]_vars

\* the product detail panel over a catalog that also holds a product whose
\* three image columns are all empty
CatalogWithBareProduct ==
    Catalog \o << Product(4, <<"c">>, 1, "Apparel", 0, "", "", "") >>

NextDetail ==
    \/ FetchProductsResolved(CatalogWithBareProduct)
    \/ Navigation
    \/ nextImage
    \/ prevImage
    \/ \E idx \in 0..2 : IndicatorClick(idx)

SpecDetail == Init /\ [][NextDetail]_vars

-----------------------------------------------------------------------------
(* Properties of the cart *)

\* C1: a step of addToCart(product) on a cart that holds an entry of the
\* product adds 1 to that entry's quantity and leaves the number of entries
\* and every other entry as they were; on a cart that holds none it appends
\* one entry of the product with quantity 1 and leaves the others as they
\* were.  Two calls for one product from the empty cart give one entry with
\* quantity 2.
AddToCartContract ==
    [][last'.op = "addToCart" =>
         LET pid == last'.a
             held == {i \in 1..Len(cart) : cart[i].product_id = pid}
         IN  /\ IF held # {}
                THEN /\ Cardinality(held) = 1
                     /\ Len(cart') = Len(cart)
                     /\ \A i \in 1..Len(cart) :
                          cart'[i] = IF i \in held
                                     THEN [cart[i] EXCEPT
                                             !.quantity = cart[i].quantity + 1]
                                     ELSE cart[i]
                ELSE /\ Len(cart') = Len(cart) + 1
                     /\ SubSeq(cart', 1, Len(cart)) = cart
                     /\ cart'[Len(cart')].product_id = pid
                     /\ cart'[Len(cart')].quantity = 1
             /\ (last = [op |-> "addToCart", a |-> pid, b |-> 0]
                   /\ Len(cart) = 1 /\ cart[1].quantity = 1
                   /\ cart[1].product_id = pid)
                => (Len(cart') = 1 /\ cart'[1].quantity = 2)
    ]_vars

\* addToCart has just raised the quantity of one of two entries to 2
AddToCartTwiceReached ==
    /\ last.op = "addToCart"
    /\ Len(cart) = 2
    /\ \E i \in 1..2 : cart[i].product_id = last.a /\ cart[i].quantity = 2

\* C2: the cart never holds two entries of one product, whatever sequence of
\* addToCart, buyNow, updateQuantity, removeFromCart and checkouts ran.
NoDuplicateProducts ==
    \A i, j \in 1..Len(cart) :
        i # j => cart[i].product_id # cart[j].product_id

\* after an order was placed, the product was bought again, twice
RepeatAddAfterCheckoutReached ==
    /\ dbOrders # <<>>
    /\ last.op = "buyNow"
    /\ Len(cart) = 1
    /\ cart[1].quantity = 2

\* C3: a step of updateQuantity(entryId, newQuantity) on an entry of the
\* cart removes that entry, the count going down by exactly 1 and the others
\* staying as they were, when newQuantity <= 0; otherwise it sets that
\* entry's quantity to newQuantity and leaves the count and every other
\* entry as they were.
UpdateQuantityContract ==
    [][(last'.op = "updateQuantity"
          /\ \E i \in 1..Len(cart) : cart[i].id = last'.a) =>
         \E i \in 1..Len(cart) :
            /\ cart[i].id = last'.a
            /\ cart' = IF last'.b <= 0
                       THEN RemoveAt(cart, i)
                       ELSE [cart EXCEPT ![i].quantity = last'.b]
    ]_vars

-----------------------------------------------------------------------------
(* Properties of checkout *)

\* C4: whenever a successful checkout response has just been processed, in
\* whatever state it found the client, the panel shown is Confirmation, for
\* the order the service returned, the cart is empty and the address is empty.
ConfirmationAfterCheckoutOk ==
    last.op = "checkoutOk" =>
        /\ Panel = "Confirmation"
        /\ dbOrders # <<>>
        /\ orderConfirmation = Some(dbOrders[Len(dbOrders)])
        /\ Val(orderConfirmation).id = last.a
        /\ cart = <<>>
        /\ address = <<>>

\* the response was processed while the order history was open
ConfirmationOverOrdersReached ==
    /\ last.op = "checkoutOk"
    /\ showOrders
    /\ orderConfirmation # Null

\* C5: the order list holds every order a successful checkout response
\* returned, each exactly once, and is as long as the number of successful
\* responses processed, also with several requests in flight at once.
OrdersHoldEveryReturnedOrder ==
    /\ Len(orders) = Len(dbOrders)
    /\ \A k \in 1..Len(dbOrders) :
          Cardinality({j \in 1..Len(orders) : orders[j] = dbOrders[k]}) = 1

Blank(a) == \A i \in 1..Len(a) : a[i] = " "

\* C6: a step of Place Order with an empty or whitespace-only address sends
\* no request, creates no order, and leaves cart, address, order list and
\* every panel flag as they were.
BlankAddressRejected ==
    [][(last'.op = "handleCheckout" /\ Blank(address)) =>
          /\ UNCHANGED <<inflight, dbOrders, requestsSent>>
          /\ UNCHANGED <<cart, address, orders>>
          /\ UNCHANGED panelVars
          /\ alertMsg' = "Please enter shipping address"
    ]_vars

\* Place Order was just refused on a whitespace-only address, cart filled
WhitespaceAddressRefusedReached ==
    /\ last = [op |-> "handleCheckout", a |-> 0, b |-> 0]
    /\ alertMsg = "Please enter shipping address"
    /\ address = <<" ">>
    /\ cart # <<>>
    /\ Panel = "Checkout"

\* C7: handling a failed checkout request (a response that is not ok, or a
\* network error) changes none of cart, address, order list, order
\* confirmation and panel flags: the user stays on the same panel with the
\* same cart.
CheckoutFailureKeepsState ==
    [][last'.op \in {"checkoutNotOk", "checkoutError"} =>
          /\ UNCHANGED <<cart, address, orders>>
          /\ UNCHANGED panelVars
          /\ Panel' = Panel
          /\ alertMsg' # "none"
    ]_vars

\* a failure was just handled on the Checkout panel, ready for a retry
CheckoutFailureOnCheckoutReached ==
    /\ last.op = "checkoutNotOk"
    /\ Panel = "Checkout"
    /\ cart # <<>>
    /\ ~Blank(address)
    /\ requestsSent < MaxRequests

\* sum of price times quantity over the items of a request
LineTotal(items, n) ==
    LET Sum[k \in 0..n] ==
            IF k = 0 THEN 0
            ELSE Sum[k - 1] + items[k].price * items[k].quantity
    IN  Sum[n]

\* C8: the order the service returns for a request with a non-empty address
\* and at least one item has total_amount equal to the sum of price times
\* quantity over the items submitted, the address submitted, and status
\* confirmed.
OrderTotalRecomputed ==
    [][last'.op = "checkoutOk" =>
          \E i \in 1..Len(inflight) :
             LET data == inflight[i].data
                 order == dbOrders'[Len(dbOrders')]
             IN  /\ inflight' = RemoveAt(inflight, i)
                 /\ data.shipping_address # <<>>
                 /\ Len(data.items) >= 1
                 /\ order.total_amount = LineTotal(data.items, Len(data.items))
                 /\ order.shipping_address = data.shipping_address
                 /\ order.status = "confirmed"
                 /\ orderConfirmation' = Some(order)
    ]_vars

\* an order for two units was returned
OrderForTwoUnitsReached ==
    /\ last.op = "checkoutOk"
    /\ Val(orderConfirmation).total_amount = 6
    /\ Val(orderConfirmation).shipping_address = <<"H">>

-----------------------------------------------------------------------------
(* Properties of the catalog filter *)

InCategory(p, category) == category = "All" \/ p.category = category

\* the term occurs in the name, letter case aside
NameContains(name, term) ==
    \E k \in 0..(Len(name) - Len(term)) :
        \A j \in 1..Len(term) : LowerChar(name[k + j]) = LowerChar(term[j])

\* C9 as stated: for every catalog, category and search term, terms made of
\* or padded with spaces included, the filtered list is the catalog
\* restricted to the selected category (no restriction for "All") and then
\* to the names that contain the term, letter case aside, in catalog order.
FilterIsCategoryThenSubstring ==
    filteredProducts =
        SelectSeq(products,
            LAMBDA p : InCategory(p, selectedCategory)
                       /\ NameContains(p.name, searchTerm))

\* C9 as amended: the restriction to the names that contain the term applies
\* when the term has a character that is not a space; an empty or
\* whitespace-only term restricts nothing, and the filtered list is the
\* catalog restricted to the selected category.
FilterSkipsBlankTerm ==
    filteredProducts =
        SelectSeq(products,
            LAMBDA p : InCategory(p, selectedCategory)
                       /\ (Blank(searchTerm)
                             \/ NameContains(p.name, searchTerm)))

\* a whitespace-only term was typed and products whose name has no space
\* are listed; a padded term was typed and restricts the list
BlankTermListsAllReached ==
    /\ last.op = "setSearchTerm"
    /\ searchTerm = <<" ">>
    /\ selectedCategory = "Apparel"
    /\ Len(filteredProducts) = 2

-----------------------------------------------------------------------------
(* Properties of the carousel *)

ImageCount(p) ==
    (IF p.image_url = "" THEN 0 ELSE 1)
    + (IF p.image_url2 = "" THEN 0 ELSE 1)
    + (IF p.image_url3 = "" THEN 0 ELSE 1)

\* C10: for a selected product with n >= 2 images, a step of next() takes
\* index i to (i + 1) mod n and a step of prev() takes it to (i - 1 + n)
\* mod n, so next() from the last index gives 0 and prev() from 0 gives the
\* last index; prev() right after next() is back at the index next() left.
CarouselWraps ==
    [][LET n == ImageCount(Val(selectedProduct))
           i == currentImageIndex
       IN  /\ last'.op = "nextImage" =>
                 /\ n >= 2
                 /\ currentImageIndex' = (i + 1) % n
                 /\ i = n - 1 => currentImageIndex' = 0
           /\ last'.op = "prevImage" =>
                 /\ n >= 2
                 /\ currentImageIndex' = (i - 1 + n) % n
                 /\ i = 0 => currentImageIndex' = n - 1
           /\ (last.op = "nextImage" /\ last'.op = "prevImage") =>
                 currentImageIndex' = last.a
    ]_vars

\* prev() has just wrapped from the first of three images to the last
PrevWrappedReached ==
    /\ last = [op |-> "prevImage", a |-> 0, b |-> 2]
    /\ currentImageIndex = 2
    /\ selectedProduct # Null
    /\ ImageCount(Val(selectedProduct)) = 3

-----------------------------------------------------------------------------
(* Properties of the header *)

\* C11: a step of the Home action, from any reachable state, ends on the
\* Catalog panel with selected product and order confirmation cleared and
\* the cart, checkout and orders flags false; cart contents, address and
\* order list are as before.
HomeLeadsToCatalog ==
    [][last'.op = "handleHomeClick" =>
          /\ Panel' = "Catalog"
          /\ selectedProduct' = Null
          /\ orderConfirmation' = Null
          /\ ~showCart' /\ ~showCheckout' /\ ~showOrders'
          /\ UNCHANGED <<cart, address, orders>>
    ]_vars

\* Home was just taken with a filled cart, an order in the list and a
\* request still in flight
HomeWithCartAndOrdersReached ==
    /\ last.op = "handleHomeClick"
    /\ cart # <<>>
    /\ orders # <<>>
    /\ inflight # <<>>

\* C12: a step of the Orders action taken while the panel shown is not
\* Orders (Catalog, ProductDetail, Cart, Checkout or Confirmation) shows the
\* Orders panel; taken while Orders is shown it shows Catalog.
OrdersActionToggles ==
    [][last'.op = "handleOrdersClick" =>
          IF Panel # "Orders" THEN Panel' = "Orders" ELSE Panel' = "Catalog"
    ]_vars

\* C13: a step of the Cart action taken while the panel shown is not Cart
\* shows the Cart panel with no other panel flag left set; taken while Cart
\* is shown it shows Catalog.
CartActionToggles ==
    [][last'.op = "handleCartClick" =>
          IF Panel # "Cart"
          THEN /\ Panel' = "Cart"
               /\ showCart'
               /\ ~showCheckout' /\ ~showOrders'
               /\ selectedProduct' = Null
               /\ orderConfirmation' = Null
          ELSE Panel' = "Catalog"
    ]_vars

\* the Cart panel was just opened by the Cart action, after an order
CartOpenedAfterOrderReached ==
    /\ last.op = "handleCartClick"
    /\ Panel = "Cart"
    /\ dbOrders # <<>>
    /\ cart # <<>>

-----------------------------------------------------------------------------
(* Properties of buy now and of stock *)

\* the product of the catalog with the given id
ProductById(id) ==
    products[CHOOSE i \in 1..Len(products) : products[i].id = id]

\* C14: every buyNow(product) step leaves the cart with the value
\* addToCart(product) would give it in the state the step was taken in, and
\* the panel shown after the step is Checkout.
BuyNowAddsLikeAddToCart ==
    [][last'.op = "buyNow" =>
          /\ \E rnd \in RandomIds :
                 cart' = AddToCartValue(cart, ProductById(last'.a), rnd)
          /\ Panel' = "Checkout"
    ]_vars

\* buy now was just taken on a product already in the cart, after an earlier
\* order went through
BuyNowOnCartedProductReached ==
    /\ last.op = "buyNow"
    /\ QuantityOf(cart, last.a) = 2
    /\ dbOrders # <<>>
    /\ Panel = "Checkout"

\* C15: the cart never holds an entry for a product whose stock is 0, and no
\* checkout request that was sent holds an item for such a product.
NoOutOfStockInCartOrRequest ==
    /\ \A i \in 1..Len(cart) : ProductById(cart[i].product_id).stock # 0
    /\ \A r \in 1..Len(inflight) :
          \A j \in 1..Len(inflight[r].data.items) :
             ProductById(inflight[r].data.items[j].product_id).stock # 0

\* the detail page of a product out of stock is open while the cart holds an
\* entry and a request is in flight
OutOfStockDetailOpenReached ==
    /\ Panel = "ProductDetail"
    /\ Val(selectedProduct).stock = 0
    /\ cart # <<>>
    /\ inflight # <<>>

-----------------------------------------------------------------------------
(* Properties of failed requests *)

\* C16: after every failed fetch of the client (the catalog load at startup,
\* a checkout answered with a failure status, a checkout request that could
\* not be made) an alert is shown to the user, and the failure sends no new
\* request.
FailedFetchAlerted ==
    last.op \in {"fetchProductsRejected", "checkoutNotOk", "checkoutError"}
       => alertMsg # "none"

-----------------------------------------------------------------------------
(* Properties of responses that arrive late *)

\* the number of panel selectors that are set
SelectorsSet ==
    Cardinality({k \in 1..5 :
        <<orderConfirmation # Null, showOrders, selectedProduct # Null,
          showCart, showCheckout>>[k]})

\* C17: in every state at most one of the five panel selectors (order
\* confirmation, orders flag, selected product, cart flag, checkout flag) is
\* set, also after a checkout response that arrives when the user has left
\* the Checkout panel.
AtMostOnePanelSelected == SelectorsSet <= 1

\* the entry was submitted, with its quantity, in the request
SubmittedIn(entry, request) ==
    \E j \in 1..Len(request.data.items) :
       /\ request.data.items[j].product_id = entry.product_id
       /\ request.data.items[j].quantity = entry.quantity

\* C18: every cart entry removed by a successful checkout response was among
\* the items of the request that response answers, with the same quantity.
ClearedEntriesWereOrdered ==
    [][last'.op = "checkoutOk" =>
          \E i \in 1..Len(inflight) :
             /\ inflight' = RemoveAt(inflight, i)
             /\ \A k \in 1..Len(cart) : SubmittedIn(cart[k], inflight[i])
    ]_vars

-----------------------------------------------------------------------------
(* Properties of what is submitted *)

\* C19: whenever the Checkout panel is shown the cart holds at least one
\* entry, and every checkout request that was sent carries at least one item.
NoEmptyCheckout ==
    /\ Panel = "Checkout" => cart # <<>>
    /\ \A r \in 1..Len(inflight) : inflight[r].data.items # <<>>

\* the Checkout panel is shown again, with a filled cart, after an earlier
\* response emptied the cart, and a second request has been sent from it
CheckoutAgainAfterOrderReached ==
    /\ Panel = "Checkout"
    /\ dbOrders # <<>>
    /\ inflight # <<>>
    /\ last.op = "handleCheckout"

\* C20: every cart entry has a quantity of at least 1, whatever was clicked
\* or typed into the quantity field, and so has every item of every checkout
\* request that was sent.
QuantitiesAtLeastOne ==
    /\ \A i \in 1..Len(cart) : cart[i].quantity >= 1
    /\ \A r \in 1..Len(inflight) :
          \A j \in 1..Len(inflight[r].data.items) :
             inflight[r].data.items[j].quantity >= 1

\* a negative quantity was typed into the field of the only entry, which is
\* removed, while a request that carries it is in flight
NegativeQuantityTypedReached ==
    /\ last.op = "updateQuantity"
    /\ last.b = -1
    /\ cart = <<>>
    /\ inflight # <<>>

-----------------------------------------------------------------------------
(* Properties of the carousel index *)

\* the number of images of the product whose detail panel is open
SelectedImageCount == ImageCount(Val(selectedProduct))

\* C21: whenever the product detail panel is shown for a product with at
\* least one image the carousel index is one of 0..n-1, n being the number of
\* images of the product, and no step of nextImage or prevImage is taken on
\* a product with fewer than two images.
CarouselIndexInRange ==
    /\ [](Panel = "ProductDetail" /\ SelectedImageCount >= 1
             => currentImageIndex \in 0..(SelectedImageCount - 1))
    /\ [][last'.op \in {"nextImage", "prevImage"} => SelectedImageCount > 1]_vars

\* next was just taken on the last of three images and went back to the
\* first
NextWrappedReached ==
    /\ Panel = "ProductDetail"
    /\ last.op = "nextImage"
    /\ last.a = 2
    /\ currentImageIndex = 0

-----------------------------------------------------------------------------
(* Properties of removal and of loading *)

\* C22: a step of removeFromCart(entryId) removes exactly the entry with
\* that identifier: the cart loses one entry, the other entries stay as they
\* were and in their order, and the panel selectors, the address and the
\* order list are unchanged.
RemoveFromCartContract ==
    [][last'.op = "removeFromCart" =>
          /\ Len(cart') = Len(cart) - 1
          /\ \E i \in 1..Len(cart) :
                 /\ cart[i].id = last'.a
                 /\ cart' = RemoveAt(cart, i)
          /\ UNCHANGED <<address, orders>>
          /\ UNCHANGED panelVars
    ]_vars

\* C23: the client leaves the loading state and never returns to it: when
\* the startup request settles loading becomes false, from then on it stays
\* false, and after a failed request the catalog and the filtered list are
\* empty and remain empty.
LoadingEnds ==
    /\ <>[](~loading)
    /\ [][last'.op \in {"fetchProductsResolved", "fetchProductsRejected"}
            => ~loading']_vars
    /\ [][~loading => ~loading']_vars
    /\ [][last'.op = "fetchProductsRejected"
            => products' = <<>> /\ filteredProducts' = <<>>]_vars
    /\ [][~loading /\ products = <<>>
            => products' = <<>> /\ filteredProducts' = <<>>]_vars

\* after a failed startup request the user typed a search term and the
\* catalog is shown empty
SearchAfterFailedLoadReached ==
    /\ last.op = "setSearchTerm"
    /\ searchTerm # <<>>
    /\ ~loading
    /\ products = <<>>
    /\ filteredProducts = <<>>

====
